---- MODULE Spec2Model ----
(***************************************************************************)
(* Model of main.py: one Cloud Function instance.  The module body runs    *)
(* once per instance and builds the SQLAlchemy engine `db` (a QueuePool    *)
(* with pool_size=1, max_overflow=2, pool_timeout=30); afterwards only     *)
(* get_drug_targets(request) runs, once per HTTP request.                  *)
(*                                                                         *)
(* Spec        : several requests in flight in one instance, one database  *)
(*               content (the pool is what is exercised).                  *)
(* SpecLookup  : the instance serves its requests serially (main.py:50-52) *)
(*               over every small database content (the query is what is   *)
(*               exercised).                                               *)
(***************************************************************************)
EXTENDS Integers, Sequences, FiniteSets

\* ---------------------------------------------------------------- bounds
\* request slots of the instance that may be in flight at the same time
NumInv == 4
\* largest number of rows of table drugbank_targets
MaxTargetRows == 2
\* seconds of waiting that one Tick step stands for
TickSeconds == 15

Invocations == 1 .. NumInv
SerialInvocations == {1}

\* ------------------------------------------------------------- the data
\* A nullable SQL column value: <<>> is NULL, <<v>> is the value v.
NULL == <<>>
Val(v) == <<v>>

\* Variant: NULL compared as an ordinary value, so that NULL = NULL is true.
SqlEq_NullEqual(a, b) ==
    IF a = b THEN "true" ELSE "false"

\* SQL comparison a = b, three-valued: NULL on either side gives unknown.
SqlEq(a, b) ==
    IF a = NULL \/ b = NULL THEN "unknown"
    ELSE IF a = b THEN "true" ELSE "false"

Injection == "' OR '1'='1"
TargetNames == {"P12345", "Q67890"}

\* rows that table drugbank_drugs may hold: (id, drugbank_provided_id)
DrugRows ==
    { [id |-> 7, drugbank_provided_id |-> "DB00001"],
      [id |-> 8, drugbank_provided_id |-> "DB00002"],
      [id |-> 9, drugbank_provided_id |-> "DB00001"] }

\* rows that table drugbank_targets may hold: (drugbank_drug, drugbank_target);
\* drugbank_drug may be NULL, or name a drug that is not in drugbank_drugs.
TargetRowKinds ==
    { [drugbank_drug |-> d, drugbank_target |-> t] :
        d \in {Val(7), Val(8), NULL}, t \in TargetNames }

RECURSIVE SumOver(_, _)
SumOver(f, S) ==
    IF S = {} THEN 0
    ELSE LET x == CHOOSE y \in S : TRUE IN f[x] + SumOver(f, S \ {x})

\* table drugbank_targets as a multiset: row |-> number of copies
TargetTables ==
    { f \in [TargetRowKinds -> 0 .. MaxTargetRows] :
        SumOver(f, TargetRowKinds) <= MaxTargetRows }

Databases ==
    { [drugs |-> D, targets |-> T] : D \in SUBSET DrugRows, T \in TargetTables }

\* the database of the concrete scenario: drug (7, DB00001), one target row
ScenarioDb ==
    [ drugs   |-> { [id |-> 7, drugbank_provided_id |-> "DB00001"] },
      targets |-> [ r \in TargetRowKinds |->
                      IF r = [drugbank_drug |-> Val(7), drugbank_target |-> "P12345"]
                      THEN 1 ELSE 0 ] ]

\* request.args: a mapping from parameter names to strings, as a set of
\* <<name, value>> pairs
ArgsOf(s) == { <<"drugbank_id", s>> }
NoArgs == {}
HasKey(args, k) == \E kv \in args : kv[1] = k
GetItem(args, k) == (CHOOSE kv \in args : kv[1] = k)[2]
PoolArgs == { ArgsOf("DB00001"), NoArgs }
LookupIds == {"DB00001", "DB00002", "NOTREAL", Injection}
LookupArgs == { ArgsOf(s) : s \in LookupIds } \cup { NoArgs }

VARIABLES
    loaded,       \* the module body has run in this instance
    engine,       \* the module global db: <<>> before load, <<config>> after
    created,      \* number of create_engine calls so far
    db,           \* content of the Postgres database
    pc,           \* position of each invocation of get_drug_targets
    request,      \* request.args of the request the invocation serves
    afterFailure, \* the invocation, if any, that arrived when every other one had
                  \* ended and one had failed, and has run alone since
    drugbank_id,  \* local drugbank_id of each invocation (<<>> = unset)
    conns,        \* pool connections checked out on behalf of each slot
    waited,       \* seconds an invocation has been blocked in db.connect()
    result,       \* rows of the result not yet iterated
    targets,      \* local list targets
    outcome,      \* how the invocation ended
    acquires,     \* db.connect() calls made by the invocation
    stmts,        \* statements the invocation sent to the database
    served        \* per identifier, the multiset of targets last returned

vars == << loaded, engine, created, db, pc, request, afterFailure, drugbank_id, conns, waited,
           result, targets, outcome, acquires, stmts, served >>

\* ------------------------------------------------------- module load
\* Variant: an engine whose pool may overflow by 3 connections.
create_engine_Overflow3 ==
    [ drivername   |-> "postgresql+psycopg2",
      pool_size    |-> 1,
      max_overflow |-> 3,
      pool_timeout |-> 30 ]

\* Variant: an engine whose pool gives up after 10 seconds.
create_engine_Timeout10 ==
    [ drivername   |-> "postgresql+psycopg2",
      pool_size    |-> 1,
      max_overflow |-> 2,
      pool_timeout |-> 10 ]

\* sqlalchemy.create_engine(URL(...), pool_size=1, max_overflow=2, pool_timeout=30)
create_engine ==
    [ drivername   |-> "postgresql+psycopg2",
      pool_size    |-> 1,
      max_overflow |-> 2,
      pool_timeout |-> 30 ]

\* most connections the pool lets be checked out at once
Capacity(e) == e.pool_size + e.max_overflow

RECURSIVE SumTo(_, _)
SumTo(f, n) == IF n = 0 THEN 0 ELSE f[n] + SumTo(f, n - 1)

\* connections of the pool that are checked out
checkedout == SumTo(conns, NumInv)

BagOf(s) == [t \in TargetNames |-> Cardinality({k \in DOMAIN s : s[k] = t})]

InitCommon ==
    /\ loaded = FALSE
    /\ engine = <<>>
    /\ created = 0
    /\ pc = [i \in Invocations |-> "idle"]
    /\ request = [i \in Invocations |-> NoArgs]
    /\ afterFailure = {}
    /\ drugbank_id = [i \in Invocations |-> <<>>]
    /\ conns = [i \in Invocations |-> 0]
    /\ waited = [i \in Invocations |-> 0]
    /\ result = [i \in Invocations |-> <<>>]
    /\ targets = [i \in Invocations |-> <<>>]
    /\ outcome = [i \in Invocations |-> "none"]
    /\ acquires = [i \in Invocations |-> 0]
    /\ stmts = [i \in Invocations |-> <<>>]
    /\ served = [s \in LookupIds |-> <<>>]

Init == InitCommon /\ db = ScenarioDb

InitLookup == InitCommon /\ db \in Databases

\* The module body (lines 1-59) runs once, when the instance starts.
LoadModule ==
    /\ ~loaded
    /\ loaded' = TRUE
    /\ engine' = << create_engine >>
    /\ created' = created + 1
    /\ UNCHANGED << db, pc, request, afterFailure, drugbank_id, conns, waited,
                    result, targets, outcome, acquires, stmts, served >>

\* ------------------------------------------------------- the query
\* Variant: the identifier pasted into the SQL text between quotes; the input
\* ' OR '1'='1 then closes the literal and makes the condition true of every row.
SubqueryIds_Interpolated(d, param) ==
    { r.id : r \in { x \in d.drugs :
                       \/ param = Injection
                       \/ SqlEq(Val(x.drugbank_provided_id), Val(param)) = "true" } }

\* SELECT id FROM drugbank_drugs WHERE drugbank_provided_id = :drugbank_id
\* with the parameter bound: the ids of the rows whose identifier equals it.
SubqueryIds(d, param) ==
    { r.id : r \in { x \in d.drugs :
                       SqlEq(Val(x.drugbank_provided_id), Val(param)) = "true" } }

\* A scalar subquery of more than one row is an error of the statement.
StatementFails(d, param) == Cardinality(SubqueryIds(d, param)) > 1

\* The value of the scalar subquery: NULL when it has no row.
SubqueryValue(d, param) ==
    LET ids == SubqueryIds(d, param)
    IN  IF ids = {} THEN NULL ELSE Val(CHOOSE k \in ids : TRUE)

\* WHERE drugbank_drug = (subquery): the rows for which it is true.
Matches(d, param, row) ==
    SqlEq(row.drugbank_drug, SubqueryValue(d, param)) = "true"

\* number of result rows whose drugbank_target is t
MatchCount(d, param, t) ==
    SumOver([r \in TargetRowKinds |->
               IF Matches(d, param, r) /\ r.drugbank_target = t
               THEN d.targets[r] ELSE 0], TargetRowKinds)

\* The result sets the database may yield: the matching rows in any order.
ResultOrders(d, param) ==
    LET n == SumOver([t \in TargetNames |-> MatchCount(d, param, t)], TargetNames)
    IN  { s \in [1 .. n -> TargetNames] :
            \A t \in TargetNames : BagOf(s)[t] = MatchCount(d, param, t) }

\* ------------------------------------------------------- get_drug_targets
\* the invocation in slot j has ended and raised instead of returning
Failed(j) ==
    pc[j] = "done" /\ outcome[j] \in {"BadRequestKeyError", "TimeoutError", "DBAPIError"}

\* Variant: request.args.get('drugbank_id', 'NOTREAL'), which never raises.
Request_Get(i, args) ==
    /\ loaded
    /\ pc[i] \in {"idle", "done"}
    /\ request' = [request EXCEPT ![i] = args]
    /\ afterFailure' = IF /\ \A j \in Invocations \ {i} : pc[j] \in {"idle", "done"}
                          /\ \E j \in Invocations \ {i} : Failed(j)
                       THEN {i} ELSE {}
    /\ targets' = [targets EXCEPT ![i] = <<>>]
    /\ result' = [result EXCEPT ![i] = <<>>]
    /\ acquires' = [acquires EXCEPT ![i] = 0]
    /\ stmts' = [stmts EXCEPT ![i] = <<>>]
    /\ drugbank_id' = [drugbank_id EXCEPT ![i] =
                         IF HasKey(args, "drugbank_id")
                         THEN Val(GetItem(args, "drugbank_id")) ELSE Val("NOTREAL")]
    /\ outcome' = [outcome EXCEPT ![i] = "none"]
    /\ pc' = [pc EXCEPT ![i] = "connect"]
    /\ UNCHANGED << loaded, engine, created, db, conns, waited, served >>

\* line 75: drugbank_id = request.args['drugbank_id']; a missing key raises
\* BadRequestKeyError, which leaves the function before anything else runs.
Request(i, args) ==
    /\ loaded
    /\ pc[i] \in {"idle", "done"}
    /\ request' = [request EXCEPT ![i] = args]
    /\ afterFailure' = IF /\ \A j \in Invocations \ {i} : pc[j] \in {"idle", "done"}
                          /\ \E j \in Invocations \ {i} : Failed(j)
                       THEN {i} ELSE {}
    /\ targets' = [targets EXCEPT ![i] = <<>>]
    /\ result' = [result EXCEPT ![i] = <<>>]
    /\ acquires' = [acquires EXCEPT ![i] = 0]
    /\ stmts' = [stmts EXCEPT ![i] = <<>>]
    /\ IF HasKey(args, "drugbank_id")
       THEN /\ drugbank_id' = [drugbank_id EXCEPT ![i] = Val(GetItem(args, "drugbank_id"))]
            /\ outcome' = [outcome EXCEPT ![i] = "none"]
            /\ pc' = [pc EXCEPT ![i] = "connect"]
       ELSE /\ drugbank_id' = [drugbank_id EXCEPT ![i] = <<>>]
            /\ outcome' = [outcome EXCEPT ![i] = "BadRequestKeyError"]
            /\ pc' = [pc EXCEPT ![i] = "done"]
    /\ UNCHANGED << loaded, engine, created, db, conns, waited, served >>

\* Variant: the engine is built inside the function, once per request.
Connect_NewEngine(i) ==
    /\ pc[i] = "connect"
    /\ engine' = << create_engine >>
    /\ created' = created + 1
    /\ acquires' = [acquires EXCEPT ![i] = @ + 1]
    /\ IF checkedout < Capacity(engine[1])
       THEN /\ conns' = [conns EXCEPT ![i] = @ + 1]
            /\ pc' = [pc EXCEPT ![i] = "execute"]
            /\ UNCHANGED waited
       ELSE /\ pc' = [pc EXCEPT ![i] = "waiting"]
            /\ waited' = [waited EXCEPT ![i] = 0]
            /\ UNCHANGED conns
    /\ UNCHANGED << loaded, db, request, afterFailure, drugbank_id, result,
                    targets, outcome, stmts, served >>

\* line 93: db.connect() takes a connection when fewer than
\* pool_size + max_overflow are checked out, and blocks otherwise.
Connect(i) ==
    /\ pc[i] = "connect"
    /\ acquires' = [acquires EXCEPT ![i] = @ + 1]
    /\ IF checkedout < Capacity(engine[1])
       THEN /\ conns' = [conns EXCEPT ![i] = @ + 1]
            /\ pc' = [pc EXCEPT ![i] = "execute"]
            /\ UNCHANGED waited
       ELSE /\ pc' = [pc EXCEPT ![i] = "waiting"]
            /\ waited' = [waited EXCEPT ![i] = 0]
            /\ UNCHANGED conns
    /\ UNCHANGED << loaded, engine, created, db, request, afterFailure,
                    drugbank_id, result, targets,
                    outcome, stmts, served >>

\* line 93, blocked: a connection came back before the timeout.
WaitAcquire(i) ==
    /\ pc[i] = "waiting"
    /\ checkedout < Capacity(engine[1])
    /\ conns' = [conns EXCEPT ![i] = @ + 1]
    /\ pc' = [pc EXCEPT ![i] = "execute"]
    /\ waited' = [waited EXCEPT ![i] = 0]
    /\ UNCHANGED << loaded, engine, created, db, request, afterFailure,
                    drugbank_id, result, targets,
                    outcome, acquires, stmts, served >>

\* line 93, blocked for pool_timeout seconds: db.connect() raises TimeoutError.
PoolTimeout(i) ==
    /\ pc[i] = "waiting"
    /\ checkedout >= Capacity(engine[1])
    /\ waited[i] >= engine[1].pool_timeout
    /\ outcome' = [outcome EXCEPT ![i] = "TimeoutError"]
    /\ pc' = [pc EXCEPT ![i] = "done"]
    /\ waited' = [waited EXCEPT ![i] = 0]
    /\ UNCHANGED << loaded, engine, created, db, request, afterFailure,
                    drugbank_id, conns,
                    result, targets, acquires, stmts, served >>

Min(a, b) == IF a < b THEN a ELSE b

\* Time passes for the blocked invocations.  A blocked invocation is woken as
\* soon as a connection is free and gives up as soon as its timeout is over,
\* so time passes only when neither is due.
Tick ==
    /\ \E i \in Invocations : pc[i] = "waiting"
    /\ checkedout >= Capacity(engine[1])
    /\ \A i \in Invocations :
         pc[i] = "waiting" => waited[i] < engine[1].pool_timeout
    /\ waited' = [i \in Invocations |->
                    IF pc[i] = "waiting"
                    THEN Min(waited[i] + TickSeconds, engine[1].pool_timeout)
                    ELSE waited[i]]
    /\ UNCHANGED << loaded, engine, created, db, pc, request, afterFailure,
                    drugbank_id, conns,
                    result, targets, outcome, acquires, stmts, served >>

\* Variant: the statement removes the rows it returns (DELETE ... RETURNING).
ExecuteOk_Delete(i) ==
    /\ pc[i] = "execute"
    /\ ~StatementFails(db, drugbank_id[i][1])
    /\ \E s \in ResultOrders(db, drugbank_id[i][1]) :
         result' = [result EXCEPT ![i] = s]
    /\ db' = [db EXCEPT !.targets =
                 [r \in TargetRowKinds |->
                    IF Matches(db, drugbank_id[i][1], r) THEN 0 ELSE db.targets[r]]]
    /\ stmts' = [stmts EXCEPT ![i] = Append(@, "DELETE")]
    /\ pc' = [pc EXCEPT ![i] = "iterate"]
    /\ UNCHANGED << loaded, engine, created, request, afterFailure, drugbank_id,
                    conns, waited, targets, outcome, acquires, served >>

\* line 94: conn.execute(stmt, drugbank_id=drugbank_id) returns a result.
ExecuteOk(i) ==
    /\ pc[i] = "execute"
    /\ ~StatementFails(db, drugbank_id[i][1])
    /\ \E s \in ResultOrders(db, drugbank_id[i][1]) :
         result' = [result EXCEPT ![i] = s]
    /\ stmts' = [stmts EXCEPT ![i] = Append(@, "SELECT")]
    /\ pc' = [pc EXCEPT ![i] = "iterate"]
    /\ UNCHANGED << loaded, engine, created, db, request, afterFailure,
                    drugbank_id, conns, waited,
                    targets, outcome, acquires, served >>

\* Variant: the connection is not closed when execute raises.
ExecuteFail_NoRelease(i) ==
    /\ pc[i] = "execute"
    /\ stmts' = [stmts EXCEPT ![i] = Append(@, "SELECT")]
    /\ outcome' = [outcome EXCEPT ![i] = "DBAPIError"]
    /\ pc' = [pc EXCEPT ![i] = "done"]
    /\ UNCHANGED << loaded, engine, created, db, request, afterFailure, drugbank_id,
                    conns, waited, result, targets, acquires, served >>

\* line 94 raises (the database is unreachable, or the statement is in
\* error); leaving the with block returns the connection to the pool.
ExecuteFail(i) ==
    /\ pc[i] = "execute"
    /\ stmts' = [stmts EXCEPT ![i] = Append(@, "SELECT")]
    /\ conns' = [conns EXCEPT ![i] = @ - 1]
    /\ outcome' = [outcome EXCEPT ![i] = "DBAPIError"]
    /\ pc' = [pc EXCEPT ![i] = "done"]
    /\ UNCHANGED << loaded, engine, created, db, request, afterFailure,
                    drugbank_id, waited, result,
                    targets, acquires, served >>

\* Variant: a target already in the list is not appended again.
Fetch_Dedup(i) ==
    /\ pc[i] = "iterate"
    /\ result[i] # <<>>
    /\ targets' = [targets EXCEPT ![i] =
                     IF \E k \in DOMAIN @ : @[k] = Head(result[i])
                     THEN @ ELSE Append(@, Head(result[i]))]
    /\ result' = [result EXCEPT ![i] = Tail(@)]
    /\ UNCHANGED << loaded, engine, created, db, pc, request, afterFailure,
                    drugbank_id, conns, waited, outcome, acquires, stmts, served >>

\* lines 95-96: one turn of the loop, targets.append(row['drugbank_target']).
Fetch(i) ==
    /\ pc[i] = "iterate"
    /\ result[i] # <<>>
    /\ targets' = [targets EXCEPT ![i] = Append(@, Head(result[i]))]
    /\ result' = [result EXCEPT ![i] = Tail(@)]
    /\ UNCHANGED << loaded, engine, created, db, pc, request, afterFailure,
                    drugbank_id, conns, waited,
                    outcome, acquires, stmts, served >>

\* Variant: the connection is not closed when the loop raises.
FetchFail_NoRelease(i) ==
    /\ pc[i] = "iterate"
    /\ result[i] # <<>>
    /\ outcome' = [outcome EXCEPT ![i] = "DBAPIError"]
    /\ pc' = [pc EXCEPT ![i] = "done"]
    /\ UNCHANGED << loaded, engine, created, db, request, afterFailure, drugbank_id,
                    conns, waited, result, targets, acquires, stmts, served >>

\* line 95 raises while fetching a row; the with block returns the connection.
FetchFail(i) ==
    /\ pc[i] = "iterate"
    /\ result[i] # <<>>
    /\ conns' = [conns EXCEPT ![i] = @ - 1]
    /\ outcome' = [outcome EXCEPT ![i] = "DBAPIError"]
    /\ pc' = [pc EXCEPT ![i] = "done"]
    /\ UNCHANGED << loaded, engine, created, db, request, afterFailure,
                    drugbank_id, waited, result,
                    targets, acquires, stmts, served >>

\* The loop is over: the with block ends (the connection goes back to the
\* pool) and lines 109-113 return jsonify({'targets': targets}).
Return(i) ==
    /\ pc[i] = "iterate"
    /\ result[i] = <<>>
    /\ conns' = [conns EXCEPT ![i] = @ - 1]
    /\ outcome' = [outcome EXCEPT ![i] = "ok"]
    /\ pc' = [pc EXCEPT ![i] = "done"]
    /\ served' = [served EXCEPT ![drugbank_id[i][1]] = << BagOf(targets[i]) >>]
    /\ UNCHANGED << loaded, engine, created, db, request, afterFailure,
                    drugbank_id, waited, result,
                    targets, acquires, stmts >>

\* HTTP status of an ended invocation (Flask: an HTTPException keeps its
\* code, any other exception is a 500).
StatusOf(o) ==
    IF o = "ok" THEN 200
    ELSE IF o = "BadRequestKeyError" THEN 400
    ELSE 500

Next ==
    \/ LoadModule
    \/ \E i \in Invocations, a \in PoolArgs : Request(i, a)
    \/ \E i \in Invocations : Connect(i)
    \/ \E i \in Invocations : WaitAcquire(i)
    \/ \E i \in Invocations : PoolTimeout(i)
    \/ Tick
    \/ \E i \in Invocations : ExecuteOk(i)
    \/ \E i \in Invocations : ExecuteFail(i)
    \/ \E i \in Invocations : Fetch(i)
    \/ \E i \in Invocations : FetchFail(i)
    \/ \E i \in Invocations : Return(i)

NextSerial ==
    \/ LoadModule
    \/ \E i \in SerialInvocations, a \in LookupArgs : Request(i, a)
    \/ \E i \in SerialInvocations : Connect(i)
    \/ \E i \in SerialInvocations : ExecuteOk(i)
    \/ \E i \in SerialInvocations : ExecuteFail(i)
    \/ \E i \in SerialInvocations : Fetch(i)
    \/ \E i \in SerialInvocations : FetchFail(i)
    \/ \E i \in SerialInvocations : Return(i)

Spec == Init /\ [][Next]_vars

SpecLookup == InitLookup /\ [][NextSerial]_vars

\* ================================================================ claims
\* What the tables say, read directly from db (not through the query).
DrugsWithId(p) == { r \in db.drugs : r.drugbank_provided_id = p }

StoredCount(k, t) ==
    LET row == [drugbank_drug |-> Val(k), drugbank_target |-> t]
    IN  IF row \in DOMAIN db.targets THEN db.targets[row] ELSE 0

RowsOfDrug(k) == SumOver([t \in TargetNames |-> StoredCount(k, t)], TargetNames)

UniqueIds ==
    \A r1, r2 \in db.drugs :
        r1.drugbank_provided_id = r2.drugbank_provided_id => r1 = r2

Ended(i) == pc[i] \in {"idle", "done"}
Succeeded(i) == pc[i] = "done" /\ outcome[i] = "ok"
InFlightQuery(i) == pc[i] \in {"execute", "iterate"}

\* lines 109-113: the body of the response
Response(i) == [targets |-> targets[i]]

\* C1: when provided identifiers are unique and the identifier names a drug,
\* a successful call returns as many targets as there are target rows of that
\* drug's id, and exactly those targets, each as often as it is stored.
C1_TargetsOfTheDrug ==
    \A i \in Invocations :
        (Succeeded(i) /\ UniqueIds /\ DrugsWithId(drugbank_id[i][1]) # {}) =>
            LET k == (CHOOSE r \in DrugsWithId(drugbank_id[i][1]) : TRUE).id
            IN  /\ Len(Response(i).targets) = RowsOfDrug(k)
                /\ \A t \in TargetNames :
                     BagOf(Response(i).targets)[t] = StoredCount(k, t)

C1_Witness ==
    /\ Succeeded(1) /\ UniqueIds
    /\ drugbank_id[1] = Val("DB00001")
    /\ DrugsWithId("DB00001") = { [id |-> 7, drugbank_provided_id |-> "DB00001"] }
    /\ targets[1] = << "P12345" >>
    /\ \E r \in db.drugs : r.id = 8 /\ RowsOfDrug(8) > 0

\* The identifier names no drug, or names exactly one drug without target rows.
NoTargetsCase(p) ==
    \/ DrugsWithId(p) = {}
    \/ /\ Cardinality(DrugsWithId(p)) = 1
       /\ \A r \in DrugsWithId(p) : RowsOfDrug(r.id) = 0

\* C2 as stated: an identifier that is not in the drug table, or that names a
\* drug without target rows, always ends successfully with an empty list.
C2_UnknownIdNeverFails ==
    \A i \in Invocations :
        ( /\ pc[i] = "done" /\ drugbank_id[i] # <<>>
          /\ \/ DrugsWithId(drugbank_id[i][1]) = {}
             \/ \A r \in DrugsWithId(drugbank_id[i][1]) : RowsOfDrug(r.id) = 0 )
        => (outcome[i] = "ok" /\ Response(i) = [targets |-> <<>>])

\* C2 amended: for an identifier that names no drug, or exactly one drug
\* without target rows, no row of the target table is ever returned, the
\* statement can always succeed, the call ends either successfully with an
\* empty list or with a database error, never with a client error.
C2_UnknownIdEmptyUnlessDbError ==
    \A i \in Invocations :
        (pc[i] # "idle" /\ drugbank_id[i] # <<>> /\ NoTargetsCase(drugbank_id[i][1])) =>
            /\ targets[i] = <<>> /\ result[i] = <<>>
            /\ pc[i] = "execute" => ENABLED ExecuteOk(i)
            /\ pc[i] = "done" => outcome[i] \in {"ok", "DBAPIError", "TimeoutError"}
            /\ Succeeded(i) => (Response(i) = [targets |-> <<>>] /\ StatusOf(outcome[i]) = 200)

C2_Witness ==
    /\ Succeeded(1)
    /\ drugbank_id[1] = Val("NOTREAL")
    /\ targets[1] = <<>>
    /\ db.targets[[drugbank_drug |-> NULL, drugbank_target |-> "P12345"]] > 0
    /\ db.targets[[drugbank_drug |-> Val(8), drugbank_target |-> "Q67890"]] > 0
    /\ DrugsWithId("DB00002") = {}

\* C3: a request without drugbank_id ends, in the step that reads the
\* parameter, with a 4xx outcome; that invocation acquires no connection and
\* sends no statement, and the checked-out count and the database are the same
\* after the call as before.
C3_MissingParamState ==
    \A i \in Invocations :
        (pc[i] # "idle" /\ ~HasKey(request[i], "drugbank_id")) =>
            /\ pc[i] = "done"
            /\ StatusOf(outcome[i]) \in 400 .. 499
            /\ acquires[i] = 0 /\ stmts[i] = <<>> /\ conns[i] = 0

C3_MissingParamStep ==
    \A i \in Invocations :
        Request(i, NoArgs) =>
            /\ pc'[i] = "done"
            /\ conns' = conns
            /\ db' = db

C3_MissingParamIsClientError ==
    []C3_MissingParamState /\ [][C3_MissingParamStep]_vars

C3_Witness ==
    \E i \in Invocations :
        /\ pc[i] = "done" /\ request[i] = NoArgs
        /\ outcome[i] = "BadRequestKeyError"
        /\ checkedout = 2

\* C4: a connection is held only between db.connect() and the end of the with
\* block: an invocation that has ended (normally, by an error of execute, or
\* by an error of the loop) or not yet connected holds none, and when no
\* invocation is in progress nothing is checked out.
C4_ConnectionAlwaysReleased ==
    /\ \A i \in Invocations : ~InFlightQuery(i) => conns[i] = 0
    /\ (\A i \in Invocations : Ended(i)) => checkedout = 0

C4_Witness ==
    \E i, j, k \in Invocations :
        /\ \A n \in Invocations : Ended(n)
        /\ Succeeded(i)
        /\ pc[j] = "done" /\ outcome[j] = "DBAPIError" /\ result[j] = <<>>
        /\ pc[k] = "done" /\ outcome[k] = "DBAPIError" /\ result[k] # <<>>

\* C5: never more than 3 connections are checked out, every in-flight query
\* holds exactly one, so at most 3 queries run at the same time.
C5_AtMostThreeCheckedOut ==
    /\ checkedout <= 3
    /\ \A i \in Invocations : InFlightQuery(i) => conns[i] = 1
    /\ Cardinality({ i \in Invocations : InFlightQuery(i) }) <= 3

C5_Witness ==
    /\ checkedout = 3
    /\ Cardinality({ i \in Invocations : InFlightQuery(i) }) = 3
    /\ \E i \in Invocations : pc[i] = "waiting"

\* C6: with 3 connections out a further db.connect() blocks, and only then;
\* a blocked invocation takes a connection as soon as one is free (no time
\* passes for it while one is), fails with TimeoutError exactly when it has
\* waited 30 seconds with 3 still out, never waits longer than 30 seconds,
\* and never runs its query without a connection.
C6_WaitState ==
    \A i \in Invocations :
        /\ waited[i] <= 30
        /\ InFlightQuery(i) => conns[i] >= 1
        /\ outcome[i] = "TimeoutError" => (stmts[i] = <<>> /\ conns[i] = 0)

C6_WaitStep ==
    \A i \in Invocations :
        /\ (pc[i] = "connect" /\ pc'[i] # "connect") =>
              ((checkedout = 3) <=> (pc'[i] = "waiting"))
        /\ (pc[i] = "waiting" /\ waited'[i] > waited[i]) => checkedout = 3
        /\ (pc[i] = "waiting" /\ pc'[i] = "execute") =>
              (checkedout < 3 /\ conns'[i] = 1 /\ waited[i] <= 30)
        /\ (pc[i] = "waiting" /\ pc'[i] = "done") =>
              (waited[i] = 30 /\ checkedout = 3 /\ outcome'[i] = "TimeoutError")
        /\ (pc[i] = "waiting" /\ pc'[i] # "waiting") => pc'[i] \in {"execute", "done"}

C7_NoRetryState ==
    \A i \in Invocations :
        /\ acquires[i] <= 1
        /\ Len(stmts[i]) <= 1
        /\ (i \in afterFailure /\ Succeeded(i)) =>
              \A t \in TargetNames :
                 BagOf(targets[i])[t] =
                    SumOver([r \in DrugsWithId(drugbank_id[i][1]) |->
                               StoredCount(r.id, t)], DrugsWithId(drugbank_id[i][1]))

C7_AcquireStep ==
    \A i \in Invocations :
        (i \in afterFailure /\ pc[i] = "connect" /\ pc'[i] # "connect")
        => (pc'[i] = "execute" /\ conns'[i] = 1 /\ checkedout = 0)

C7_PoolSurvivesFailures ==
    []C7_NoRetryState /\ [][C7_AcquireStep]_vars

C7_Witness ==
    \E i, j, k, m \in Invocations :
        /\ i \in afterFailure /\ Succeeded(i) /\ targets[i] = << "P12345" >>
        /\ pc[j] = "done" /\ outcome[j] = "BadRequestKeyError"
        /\ pc[k] = "done" /\ outcome[k] = "TimeoutError"
        /\ pc[m] = "done" /\ outcome[m] = "DBAPIError"

\* C8: the engine is created once, by the module body, before any request
\* is handled, with pool_size 1, max_overflow 2 and pool_timeout 30, and no
\* step of get_drug_targets creates, replaces or reconfigures it.
C8_EngineState ==
    /\ created = (IF loaded THEN 1 ELSE 0)
    /\ loaded => /\ Len(engine) = 1
                 /\ engine[1].pool_size = 1
                 /\ engine[1].max_overflow = 2
                 /\ engine[1].pool_timeout = 30
    /\ \A i \in Invocations : pc[i] # "idle" => loaded

C8_EngineStep ==
    loaded => (engine' = engine /\ created' = created /\ loaded')

C8_EngineCreatedOnce ==
    []C8_EngineState /\ [][C8_EngineStep]_vars

C8_Witness ==
    \E i, j \in Invocations :
        /\ i # j /\ created = 1
        /\ Succeeded(i) /\ InFlightQuery(j)

\* C9: every target an invocation gets from the database is a target of a
\* drug whose provided identifier is, character for character, the supplied
\* string; an input equal to no stored identifier gets none.
C9_LiteralComparison ==
    \A i \in Invocations :
        drugbank_id[i] # <<>> =>
            LET p == drugbank_id[i][1]
                returned == targets[i] \o result[i]
            IN  /\ \A n \in DOMAIN returned :
                      \E r \in DrugsWithId(p) : StoredCount(r.id, returned[n]) > 0
                /\ (p \notin { r.drugbank_provided_id : r \in db.drugs })
                      => returned = <<>>

C9_Witness ==
    /\ Succeeded(1)
    /\ drugbank_id[1] = Val(Injection)
    /\ targets[1] = <<>>
    /\ db.drugs = { [id |-> 7, drugbank_provided_id |-> "DB00001"] }
    /\ RowsOfDrug(7) = 2

\* C10: no step changes the drug table or the target table, an invocation
\* sends at most one statement and it is a SELECT, and once an identifier has
\* been answered every later answer to it is the same multiset of targets.
C10_StatementsState ==
    \A i \in Invocations :
        /\ Len(stmts[i]) <= 1
        /\ \A n \in DOMAIN stmts[i] : stmts[i][n] = "SELECT"

C10_ReadOnlyStep ==
    /\ db' = db
    /\ \A p \in LookupIds : served[p] # <<>> => served'[p] = served[p]

C10_ReadOnly ==
    []C10_StatementsState /\ [][C10_ReadOnlyStep]_vars

C10_Witness ==
    /\ served["DB00001"] # <<>>
    /\ pc[1] = "iterate" /\ drugbank_id[1] = Val("DB00001")
    /\ result[1] = <<>> /\ Len(targets[1]) = 2
====
